---- MODULE Spec2Model ----
(***************************************************************************)
(* The knock lifecycle of Knock-Knock (main/views.py): the request         *)
(* handlers submit, assing_to, rating, KnockCreateView and KnockDeleteView *)
(* acting on the Knock and KnockSubmit tables, one request at a time.      *)
(***************************************************************************)
EXTENDS Integers, Sequences, FiniteSets, Bags, TLC

\* ------------------------------------------------------------------------
\* Bounds
\* ------------------------------------------------------------------------
NumUsers == 3
MaxKnocks == 1

Users == 1..NumUsers
\* a pk that belongs to no user (get_object_or_404 on it raises Http404)
NoSuchUser == NumUsers + 1
UserPks == Users \cup {NoSuchUser}
KnockPks == 1..MaxKnocks

\* ------------------------------------------------------------------------
\* Values
\* ------------------------------------------------------------------------
\* Python's None in a nullable column (pks and stars are all >= 1)
None == 0

OPEN == "OPEN"
RESERVED == "RESERVED"
CLOSED == "CLOSED"
Status == {OPEN, RESERVED, CLOSED}

\* what a request ends in
Redirect == "302 knock-detail"
RedirectHome == "302 homepage"
RedirectLogin == "302 login"
PermissionDenied == "403 PermissionDenied"
Http404 == "404 Http404"
AttributeError == "500 AttributeError"

\* users holding main.can_submit_for_knocks
CanSubmit == Users \ {1}

\* ------------------------------------------------------------------------
\* request.POST of a rating request: a mapping that has the key "rating" or
\* not; the value is a string, modelled as a sequence of characters
\* ------------------------------------------------------------------------
EmptyPOST == [key \in {} |-> <<>>]
PostRating(s) == [key \in {"rating"} |-> s]
RatingStrings ==
    { <<>>, <<"a">>, <<"0">>, <<"1">>, <<" ", "5">>, <<"6">>,
      <<"-", "1">>, <<"5", ".", "0">> }
POSTs == {EmptyPOST} \cup {PostRating(s) : s \in RatingStrings}

\* ------------------------------------------------------------------------
\* int(str) of Python: surrounding whitespace is dropped, one sign is
\* allowed, the rest must be decimal digits; anything else raises ValueError
\* ------------------------------------------------------------------------
Digits == {"0", "1", "2", "3", "4", "5", "6", "7", "8", "9"}

DigitValue(c) ==
    CASE c = "0" -> 0 [] c = "1" -> 1 [] c = "2" -> 2 [] c = "3" -> 3
      [] c = "4" -> 4 [] c = "5" -> 5 [] c = "6" -> 6 [] c = "7" -> 7
      [] c = "8" -> 8 [] c = "9" -> 9

RECURSIVE lstrip(_)
lstrip(s) == IF s # <<>> /\ Head(s) = " " THEN lstrip(Tail(s)) ELSE s

RECURSIVE rstrip(_)
rstrip(s) ==
    IF s # <<>> /\ s[Len(s)] = " " THEN rstrip(SubSeq(s, 1, Len(s) - 1)) ELSE s

RECURSIVE digits_value(_, _)
digits_value(s, acc) ==
    IF s = <<>> THEN acc
    ELSE digits_value(Tail(s), acc * 10 + DigitValue(Head(s)))

\* is_int(s): int(s) returns; int(s): the value it returns
int_body(s) ==
    LET t == rstrip(lstrip(s))
    IN  IF t # <<>> /\ Head(t) \in {"+", "-"} THEN Tail(t) ELSE t

is_int(s) ==
    LET b == int_body(s)
    IN  b # <<>> /\ \A i \in 1..Len(b) : b[i] \in Digits

int(s) ==
    LET t == rstrip(lstrip(s))
        sign == IF t # <<>> /\ Head(t) = "-" THEN -1 ELSE 1
    IN  sign * digits_value(int_body(s), 0)

\* ------------------------------------------------------------------------
\* State
\* ------------------------------------------------------------------------
VARIABLES
    knocks,          \* Knock table: pk -> row
    knock_submits,   \* KnockSubmit table: a bag of rows [knock, user]
    next_pk,         \* the pk the next created Knock gets (pks are not reused)
    last             \* the last request handled and its response

vars == <<knocks, knock_submits, next_pk, last>>

VARIABLES
    catalog,         \* the searchable columns of the Knock rows, in pk order
    search_out       \* the last search request and what it rendered

search_vars == <<catalog, search_out>>

VARIABLES
    requests,        \* rating requests in flight: where each stands, its loaded knock
    writes           \* the rating requests that saved, in the order of their saves

conc_vars == <<requests, writes>>

KnockRow ==
    [requester : Users, assigned_to : Users \cup {None}, status : Status,
     request_stars : (1..5) \cup {None}, work_stars : (1..5) \cup {None}]

SubmitRow(knock_pk, user) == [knock |-> knock_pk, user |-> user]

Request(op, knock_pk, user, user_pk, POST, response) ==
    [op |-> op, knock_pk |-> knock_pk, user |-> user, user_pk |-> user_pk,
     POST |-> POST, response |-> response]

\* what a handler leaves behind: the two tables and the response
Outcome(K, S, response) == [knocks |-> K, knock_submits |-> S, response |-> response]

\* ------------------------------------------------------------------------
\* The ORM
\* ------------------------------------------------------------------------
\* KnockSubmit.objects.filter(knock=.., user=..).exists()
submit_exists(S, knock_pk, user) == BagIn(SubmitRow(knock_pk, user), S)

\* knock.submits.add(user): the related manager inserts the rows that are
\* not there yet
submits_add(S, knock_pk, user) ==
    IF BagIn(SubmitRow(knock_pk, user), S) THEN S
    ELSE S (+) SetToBag({SubmitRow(knock_pk, user)})

\* Knock.save(): the row is written; status follows assigned_to
\* (OPEN before assignment, RESERVED once assigned)
knock_save(K, knock_pk, row) ==
    [K EXCEPT ![knock_pk] =
        IF row.status = OPEN /\ row.assigned_to # None
        THEN [row EXCEPT !.status = RESERVED]
        ELSE row]

\* a new Knock row: nothing assigned, nothing rated, status OPEN
new_knock(user) ==
    [requester |-> user, assigned_to |-> None, status |-> OPEN,
     request_stars |-> None, work_stars |-> None]

\* ------------------------------------------------------------------------
\* The handlers
\* ------------------------------------------------------------------------
\* form.instance of a valid KnockForm: the row built from the submitted
\* fields; form_requester is the requester the form data names (None: none)
form_instance(form_requester) ==
    [new_knock(1) EXCEPT !.requester = form_requester]

\* form_valid that keeps a requester named by the form data
form_valid_keeps_form(K, S, pk, user, form_requester) ==
    LET instance ==
            IF form_requester # None THEN form_instance(form_requester)
            ELSE [form_instance(form_requester) EXCEPT !.requester = user]
    IN  Outcome([p \in DOMAIN K \cup {pk} |-> IF p = pk THEN instance ELSE K[p]],
                S, Redirect)

\* KnockCreateView.form_valid (a valid form, an authenticated user):
\* form.instance.requester = self.request.user, then the instance is saved
form_valid(K, S, pk, user, form_requester) ==
    LET instance == [form_instance(form_requester) EXCEPT !.requester = user]
    IN  Outcome([p \in DOMAIN K \cup {pk} |-> IF p = pk THEN instance ELSE K[p]],
                S, Redirect)

\* test_func without the status test
test_func_any_status(K, knock_pk, user) ==
    K[knock_pk].requester = user

\* KnockDeleteView.test_func
test_func(K, knock_pk, user) ==
    K[knock_pk].requester = user /\ K[knock_pk].status \in {OPEN, RESERVED}

\* KnockDeleteView (POST): the row and its KnockSubmit rows go
KnockDeleteView(K, S, knock_pk, user) ==
    IF knock_pk \notin DOMAIN K THEN Outcome(K, S, Http404)
    ELSE IF ~test_func(K, knock_pk, user) THEN Outcome(K, S, PermissionDenied)
    ELSE Outcome([p \in DOMAIN K \ {knock_pk} |-> K[p]],
                 [r \in {x \in DOMAIN S : x.knock # knock_pk} |-> S[r]],
                 RedirectHome)

\* submit without the test for the requester
submit_own(K, S, knock_pk, user) ==
    IF user \notin CanSubmit THEN Outcome(K, S, RedirectLogin)
    ELSE IF knock_pk \notin DOMAIN K THEN Outcome(K, S, Http404)
    ELSE IF submit_exists(S, knock_pk, user) THEN Outcome(K, S, PermissionDenied)
    ELSE Outcome(knock_save(K, knock_pk, K[knock_pk]),
                 submits_add(S, knock_pk, user), Redirect)

\* submit without the test for an earlier submission
submit_again(K, S, knock_pk, user) ==
    IF user \notin CanSubmit THEN Outcome(K, S, RedirectLogin)
    ELSE IF knock_pk \notin DOMAIN K THEN Outcome(K, S, Http404)
    ELSE IF K[knock_pk].requester = user THEN Outcome(K, S, PermissionDenied)
    ELSE Outcome(knock_save(K, knock_pk, K[knock_pk]),
                 submits_add(S, knock_pk, user), Redirect)

\* submit that takes submissions only while nobody is assigned
submit_unassigned_only(K, S, knock_pk, user) ==
    IF user \notin CanSubmit THEN Outcome(K, S, RedirectLogin)
    ELSE IF knock_pk \notin DOMAIN K THEN Outcome(K, S, Http404)
    ELSE IF K[knock_pk].requester = user THEN Outcome(K, S, PermissionDenied)
    ELSE IF submit_exists(S, knock_pk, user) THEN Outcome(K, S, PermissionDenied)
    ELSE IF K[knock_pk].assigned_to # None THEN Outcome(K, S, PermissionDenied)
    ELSE Outcome(knock_save(K, knock_pk, K[knock_pk]),
                 submits_add(S, knock_pk, user), Redirect)

\* submit that records the submission before it tests for the requester
submit_add_first(K, S, knock_pk, user) ==
    IF user \notin CanSubmit THEN Outcome(K, S, RedirectLogin)
    ELSE IF knock_pk \notin DOMAIN K THEN Outcome(K, S, Http404)
    ELSE IF submit_exists(S, knock_pk, user) THEN Outcome(K, S, PermissionDenied)
    ELSE IF K[knock_pk].requester = user
        THEN Outcome(K, submits_add(S, knock_pk, user), PermissionDenied)
    ELSE Outcome(knock_save(K, knock_pk, K[knock_pk]),
                 submits_add(S, knock_pk, user), Redirect)

submit(K, S, knock_pk, user) ==
    IF user \notin CanSubmit THEN Outcome(K, S, RedirectLogin)
    ELSE IF knock_pk \notin DOMAIN K THEN Outcome(K, S, Http404)
    ELSE IF K[knock_pk].requester = user THEN Outcome(K, S, PermissionDenied)
    ELSE IF submit_exists(S, knock_pk, user) THEN Outcome(K, S, PermissionDenied)
    ELSE Outcome(knock_save(K, knock_pk, K[knock_pk]),
                 submits_add(S, knock_pk, user), Redirect)

\* assing_to without the test for the candidate's submission
assing_to_unsubmitted(K, S, knock_pk, user, user_pk) ==
    IF knock_pk \notin DOMAIN K THEN Outcome(K, S, Http404)
    ELSE IF user_pk \notin Users THEN Outcome(K, S, Http404)
    ELSE IF K[knock_pk].requester # user THEN Outcome(K, S, PermissionDenied)
    ELSE Outcome(knock_save(K, knock_pk, [K[knock_pk] EXCEPT !.assigned_to = user_pk]),
                 S, Redirect)

\* assing_to that sets assigned_to on the loaded object and never saves it
assing_to_unsaved(K, S, knock_pk, user, user_pk) ==
    IF knock_pk \notin DOMAIN K THEN Outcome(K, S, Http404)
    ELSE IF user_pk \notin Users THEN Outcome(K, S, Http404)
    ELSE IF K[knock_pk].requester # user THEN Outcome(K, S, PermissionDenied)
    ELSE IF ~submit_exists(S, knock_pk, user_pk) THEN Outcome(K, S, PermissionDenied)
    ELSE Outcome(K, S, Redirect)

\* assing_to that lets the requester take the own knock without a submission
assing_to_self(K, S, knock_pk, user, user_pk) ==
    IF knock_pk \notin DOMAIN K THEN Outcome(K, S, Http404)
    ELSE IF user_pk \notin Users THEN Outcome(K, S, Http404)
    ELSE IF K[knock_pk].requester # user THEN Outcome(K, S, PermissionDenied)
    ELSE IF user_pk # user /\ ~submit_exists(S, knock_pk, user_pk)
        THEN Outcome(K, S, PermissionDenied)
    ELSE Outcome(knock_save(K, knock_pk, [K[knock_pk] EXCEPT !.assigned_to = user_pk]),
                 S, Redirect)

assing_to(K, S, knock_pk, user, user_pk) ==
    IF knock_pk \notin DOMAIN K THEN Outcome(K, S, Http404)
    ELSE IF user_pk \notin Users THEN Outcome(K, S, Http404)
    ELSE IF K[knock_pk].requester # user THEN Outcome(K, S, PermissionDenied)
    ELSE IF ~submit_exists(S, knock_pk, user_pk) THEN Outcome(K, S, PermissionDenied)
    ELSE Outcome(knock_save(K, knock_pk, [K[knock_pk] EXCEPT !.assigned_to = user_pk]),
                 S, Redirect)

\* the range test without its upper end
rating_value_ok_no_max(POST) ==
    /\ "rating" \in DOMAIN POST
    /\ is_int(POST["rating"])
    /\ int(POST["rating"]) >= 1

\* lines 96-106: the rating field is there and int() of it is in 1..5
rating_value_ok(POST) ==
    /\ "rating" \in DOMAIN POST
    /\ is_int(POST["rating"])
    /\ int(POST["rating"]) >= 1
    /\ int(POST["rating"]) <= 5

\* the worker's branch without the test for an earlier rating
rate_requester_again(K, S, knock_pk, stars) ==
    Outcome(knock_save(K, knock_pk, [K[knock_pk] EXCEPT !.request_stars = stars]),
            S, Redirect)

\* the worker's branch refusing as soon as either party has rated
rate_requester_one_flag(K, S, knock_pk, stars) ==
    IF K[knock_pk].request_stars # None \/ K[knock_pk].work_stars # None
    THEN Outcome(K, S, PermissionDenied)
    ELSE Outcome(knock_save(K, knock_pk, [K[knock_pk] EXCEPT !.request_stars = stars]),
                 S, Redirect)

\* lines 109-114: the assigned worker rates the requester
rate_requester(K, S, knock_pk, stars) ==
    IF K[knock_pk].request_stars # None THEN Outcome(K, S, PermissionDenied)
    ELSE Outcome(knock_save(K, knock_pk, [K[knock_pk] EXCEPT !.request_stars = stars]),
                 S, Redirect)

\* the requester's branch without the test for an earlier rating
rate_worker_again(K, S, knock_pk, stars) ==
    Outcome(knock_save(K, knock_pk, [K[knock_pk] EXCEPT !.work_stars = stars]),
            S, Redirect)

\* lines 117-123: the requester rates the worker
rate_worker(K, S, knock_pk, stars) ==
    IF K[knock_pk].work_stars # None THEN Outcome(K, S, PermissionDenied)
    ELSE Outcome(knock_save(K, knock_pk, [K[knock_pk] EXCEPT !.work_stars = stars]),
                 S, Redirect)

rating(K, S, knock_pk, user, POST) ==
    IF knock_pk \notin DOMAIN K THEN Outcome(K, S, Http404)
    ELSE IF ~rating_value_ok(POST) THEN Outcome(K, S, PermissionDenied)
    \* line 108 reads knock.assigned_to.pk: with assigned_to None that raises
    ELSE IF K[knock_pk].assigned_to = None THEN Outcome(K, S, AttributeError)
    ELSE IF K[knock_pk].assigned_to = user
        THEN rate_requester(K, S, knock_pk, int(POST["rating"]))
    ELSE IF K[knock_pk].requester = user
        THEN rate_worker(K, S, knock_pk, int(POST["rating"]))
    ELSE Outcome(K, S, PermissionDenied)

\* ------------------------------------------------------------------------
\* search (lines 147-188): strings are sequences of characters, a GET
\* parameter is <<>> when the query string lacks it and <<s>> when it is s
\* ------------------------------------------------------------------------
MaxCatalog == 41
PerPage == 20

UpperCase == <<"A", "B", "F", "O", "P", "T">>
LowerCase == <<"a", "b", "f", "o", "p", "t">>

\* str.lower() of one character, as the LIKE of icontains folds it
lower_char(c) ==
    IF \E i \in 1..Len(UpperCase) : UpperCase[i] = c
    THEN LowerCase[CHOOSE i \in 1..Len(UpperCase) : UpperCase[i] = c]
    ELSE c

lower(s) == [i \in 1..Len(s) |-> lower_char(s[i])]

\* field__icontains=needle
icontains(field, needle) ==
    \E i \in 0..(Len(field) - Len(needle)) :
        SubSeq(lower(field), i + 1, i + Len(needle)) = lower(needle)

\* str.strip()
strip(s) == rstrip(lstrip(s))

\* request.GET.get(key, default)
GET_get(param, default) == IF param = <<>> THEN default ELSE param[1]

is_leap(y) == (y % 4 = 0 /\ y % 100 # 0) \/ y % 400 = 0

days_in_month(y, m) ==
    IF m = 2 THEN (IF is_leap(y) THEN 29 ELSE 28)
    ELSE IF m \in {4, 6, 9, 11} THEN 30 ELSE 31

\* datetime.date.fromisoformat(s) returns (YYYY-MM-DD naming a day of the
\* calendar) or raises ValueError
is_isoformat(s) ==
    /\ Len(s) = 10
    /\ s[5] = "-" /\ s[8] = "-"
    /\ \A i \in {1, 2, 3, 4, 6, 7, 9, 10} : s[i] \in Digits
    /\ LET y == digits_value(SubSeq(s, 1, 4), 0)
           m == digits_value(SubSeq(s, 6, 7), 0)
           d == digits_value(SubSeq(s, 9, 10), 0)
       IN  y >= 1 /\ m \in 1..12 /\ d \in 1..days_in_month(y, m)

fromisoformat(s) ==
    <<digits_value(SubSeq(s, 1, 4), 0), digits_value(SubSeq(s, 6, 7), 0),
      digits_value(SubSeq(s, 9, 10), 0)>>

\* lines 152-166: which filters the request adds
title_filter(GET) == strip(GET_get(GET.title, <<>>)) # <<>>
date_filter(GET) == is_isoformat(GET_get(GET.date, <<>>))
category_filter(GET) == strip(GET_get(GET.category, <<>>)) # <<>>

\* filter_acc: the filters joined by |
filter_acc_any(row, GET) ==
    \/ title_filter(GET) /\ icontains(row.title, GET_get(GET.title, <<>>))
    \/ date_filter(GET) /\ row.request_date = fromisoformat(GET_get(GET.date, <<>>))
    \/ category_filter(GET) /\ icontains(row.category, GET_get(GET.category, <<>>))

\* lines 168-171: filter_acc, the filters joined by &
filter_acc(row, GET) ==
    /\ title_filter(GET) => icontains(row.title, GET_get(GET.title, <<>>))
    /\ date_filter(GET) => row.request_date = fromisoformat(GET_get(GET.date, <<>>))
    /\ category_filter(GET) => icontains(row.category, GET_get(GET.category, <<>>))

\* lines 149, 169-172: results, the pks in table order; [] without a filter
search_results(C, GET) ==
    IF ~(title_filter(GET) \/ date_filter(GET) \/ category_filter(GET)) THEN <<>>
    ELSE SelectSeq([p \in 1..Len(C) |-> p], LAMBDA p : filter_acc(C[p], GET))

\* Paginator.num_pages (allow_empty_first_page, no orphans)
num_pages(count) ==
    LET hits == IF count < 1 THEN 1 ELSE count
    IN  (hits + PerPage - 1) \div PerPage

\* Paginator.validate_number
PageNotAnInteger == "PageNotAnInteger"
EmptyPage == "EmptyPage"
validate_number(count, page) ==
    IF page = <<>> \/ ~is_int(GET_get(page, <<>>)) THEN PageNotAnInteger
    ELSE IF int(page[1]) < 1 THEN EmptyPage
    ELSE IF int(page[1]) > num_pages(count) THEN EmptyPage
    ELSE "valid"

\* lines 175-182: the number of the page that is rendered
page_number(count, page) ==
    LET v == validate_number(count, page)
    IN  IF v = PageNotAnInteger THEN 1
        ELSE IF v = EmptyPage THEN num_pages(count)
        ELSE int(page[1])

\* Paginator.page(number).object_list
page_object_list(results, number) ==
    LET bottom == (number - 1) * PerPage
        top == IF bottom + PerPage > Len(results) THEN Len(results) ELSE bottom + PerPage
    IN  SubSeq(results, bottom + 1, top)

Rendered == "200 main/search.html"

search(C, GET) ==
    LET results == search_results(C, GET)
        number == page_number(Len(results), GET.page)
    IN  [GET |-> GET, response |-> Rendered, results |-> results,
         number |-> number, object_list |-> page_object_list(results, number)]

NoSearch ==
    [GET |-> [title |-> <<>>, date |-> <<>>, category |-> <<>>, page |-> <<>>],
     response |-> "none", results |-> <<>>, number |-> 0, object_list |-> <<>>]

\* the rows searched: three kinds of row, repeated in pk order
RowKinds ==
    << [title |-> <<"F", "o", "o">>, request_date |-> <<2024, 2, 29>>,
        category |-> <<"P", "e", "t">>],
       [title |-> <<"f", "o", "o", "t">>, request_date |-> <<2024, 3, 1>>,
        category |-> <<"a", "r", "t">>],
       [title |-> <<"b", "a", "r">>, request_date |-> <<2024, 2, 29>>,
        category |-> <<"a", "r", "t">>] >>

Catalog(n) == [p \in 1..n |-> RowKinds[(p % Len(RowKinds)) + 1]]

\* the query strings tried
TitleParams == { <<>>, << <<" ">> >>, << <<"f", "O", "o">> >>, << <<"o", "t">> >> }
DateParams ==
    { <<>>, << <<"2", "0", "2", "4", "-", "0", "2", "-", "2", "9">> >>,
      << <<"2", "0", "2", "4", "-", "0", "2", "-", "3", "0">> >> }
CategoryParams == { <<>>, << <<"p", "e">> >>, << <<"T">> >> }
PageParams == { <<>>, << <<"x">> >>, << <<"0">> >>, << <<"2">> >>, << <<"9", "9">> >> }
GETs == [title : TitleParams, date : DateParams, category : CategoryParams,
         page : PageParams]

\* ------------------------------------------------------------------------
\* rating, step by step: the load and the tests (lines 95-111, 116-120), and
\* the save of the loaded object (lines 113-114, 122-123)
\* ------------------------------------------------------------------------
NumRequests == 2
RequestIds == 1..NumRequests

\* the rating fields sent by the requests that run side by side: two values
\* in range and one out of range
ConcPOSTs ==
    {PostRating(<<"1">>), PostRating(<<" ", "5">>), PostRating(<<"6">>)}

RatingRequest(pc, knock_pk, user, POST, knock, response) ==
    [pc |-> pc, knock_pk |-> knock_pk, user |-> user, POST |-> POST,
     knock |-> knock, response |-> response]

IdleRequest == RatingRequest("idle", 0, 0, EmptyPOST, new_knock(None), "none")

\* the request is over before any save
Raised(knock_pk, user, POST, response) ==
    RatingRequest("done", knock_pk, user, POST, new_knock(None), response)

\* lines 95-113, 116-122: the knock is loaded, the tests run on the loaded
\* object, and the star is set on it; the save is still to come
rating_begin(K, knock_pk, user, POST) ==
    IF knock_pk \notin DOMAIN K THEN Raised(knock_pk, user, POST, Http404)
    ELSE IF ~rating_value_ok(POST) THEN Raised(knock_pk, user, POST, PermissionDenied)
    ELSE IF K[knock_pk].assigned_to = None
        THEN Raised(knock_pk, user, POST, AttributeError)
    ELSE IF K[knock_pk].assigned_to = user THEN
        IF K[knock_pk].request_stars # None
        THEN Raised(knock_pk, user, POST, PermissionDenied)
        ELSE RatingRequest("saving", knock_pk, user, POST,
                 [K[knock_pk] EXCEPT !.request_stars = int(POST["rating"])], "none")
    ELSE IF K[knock_pk].requester = user THEN
        IF K[knock_pk].work_stars # None
        THEN Raised(knock_pk, user, POST, PermissionDenied)
        ELSE RatingRequest("saving", knock_pk, user, POST,
                 [K[knock_pk] EXCEPT !.work_stars = int(POST["rating"])], "none")
    ELSE Raised(knock_pk, user, POST, PermissionDenied)

\* a save() that is forgotten: the loaded object is dropped
rating_commit_unsaved(K, knock_pk, knock) == K

\* lines 114, 123: knock.save() writes every column of the loaded object
rating_commit(K, knock_pk, knock) == knock_save(K, knock_pk, knock)

\* ------------------------------------------------------------------------
\* Actions: one request, handled whole
\* ------------------------------------------------------------------------
Handled(out, req) ==
    /\ knocks' = out.knocks
    /\ knock_submits' = out.knock_submits
    /\ last' = req
    /\ UNCHANGED <<search_vars, conc_vars>>

NoRequest == Request("none", 0, 0, 0, EmptyPOST, "none")

\* no knock yet
LifecycleInit ==
    /\ knocks = [p \in {} |-> new_knock(1)]
    /\ knock_submits = EmptyBag
    /\ next_pk = 1
    /\ last = NoRequest

\* no rating request in flight
ConcIdle ==
    /\ requests = [p \in RequestIds |-> IdleRequest]
    /\ writes = <<>>

Init ==
    /\ LifecycleInit
    /\ catalog = <<>>
    /\ search_out = NoSearch
    /\ ConcIdle

Create ==
    \E user \in Users, form_requester \in Users \cup {None} :
        /\ next_pk <= MaxKnocks
        /\ LET out == form_valid(knocks, knock_submits, next_pk, user, form_requester)
           IN  Handled(out, Request("create", next_pk, user, form_requester, EmptyPOST,
                                    out.response))
        /\ next_pk' = next_pk + 1

Delete ==
    \E knock_pk \in KnockPks, user \in Users :
        /\ LET out == KnockDeleteView(knocks, knock_submits, knock_pk, user)
           IN  Handled(out, Request("delete", knock_pk, user, 0, EmptyPOST, out.response))
        /\ UNCHANGED next_pk

Submit ==
    \E knock_pk \in KnockPks, user \in Users :
        /\ LET out == submit(knocks, knock_submits, knock_pk, user)
           IN  Handled(out, Request("submit", knock_pk, user, 0, EmptyPOST, out.response))
        /\ UNCHANGED next_pk

Assign ==
    \E knock_pk \in KnockPks, user \in Users, user_pk \in UserPks :
        /\ LET out == assing_to(knocks, knock_submits, knock_pk, user, user_pk)
           IN  Handled(out, Request("assing_to", knock_pk, user, user_pk, EmptyPOST,
                                    out.response))
        /\ UNCHANGED next_pk

Rate ==
    \E knock_pk \in KnockPks, user \in Users, POST \in POSTs :
        /\ LET out == rating(knocks, knock_submits, knock_pk, user, POST)
           IN  Handled(out, Request("rating", knock_pk, user, 0, POST, out.response))
        /\ UNCHANGED next_pk

\* the assigned work is finished: status goes from RESERVED to CLOSED
\* (done outside views.py)
Close ==
    \E knock_pk \in DOMAIN knocks :
        /\ knocks[knock_pk].status = RESERVED
        /\ knocks' = [knocks EXCEPT ![knock_pk].status = CLOSED]
        /\ last' = Request("close", knock_pk, 0, 0, EmptyPOST, "none")
        /\ UNCHANGED <<knock_submits, next_pk, search_vars, conc_vars>>

Next == Create \/ Delete \/ Submit \/ Assign \/ Rate \/ Close

Spec == Init /\ [][Next]_vars

\* one search request on a table of rows, the lifecycle standing still:
\* the request comes in, search answers it
SearchInit ==
    /\ LifecycleInit
    /\ \E n \in 0..MaxCatalog : catalog = Catalog(n)
    /\ \E GET \in GETs : search_out = [NoSearch EXCEPT !.GET = GET]
    /\ ConcIdle

Search ==
    /\ search_out.response = "none"
    /\ search_out' = search(catalog, search_out.GET)
    /\ UNCHANGED <<catalog, vars, conc_vars>>

SearchNext == Search

SearchSpec == SearchInit /\ [][SearchNext]_<<vars, search_vars>>

\* rating requests running side by side on an assigned knock: each request
\* first loads the knock and runs its tests on the loaded object, and later
\* saves that object
ConcInit ==
    /\ \E r \in Users : \E w \in CanSubmit \ {r} :
          /\ knocks = [p \in {1} |->
                         [new_knock(r) EXCEPT !.assigned_to = w, !.status = RESERVED]]
          /\ knock_submits = SetToBag({SubmitRow(1, w)})
          /\ last = Request("assing_to", 1, r, w, EmptyPOST, Redirect)
    /\ next_pk = 2
    /\ catalog = <<>>
    /\ search_out = NoSearch
    /\ ConcIdle

RatingBegin ==
    \E p \in RequestIds, knock_pk \in KnockPks, user \in Users, POST \in ConcPOSTs :
        /\ requests[p].pc = "idle"
        /\ requests' = [requests EXCEPT ![p] = rating_begin(knocks, knock_pk, user, POST)]
        /\ UNCHANGED <<vars, search_vars, writes>>

RatingSave ==
    \E p \in RequestIds :
        /\ requests[p].pc = "saving"
        /\ knocks' = rating_commit(knocks, requests[p].knock_pk, requests[p].knock)
        /\ requests' = [requests EXCEPT ![p].pc = "done", ![p].response = Redirect]
        /\ writes' = Append(writes, p)
        /\ UNCHANGED <<knock_submits, next_pk, last, search_vars>>

ConcNext == RatingBegin \/ RatingSave

ConcSpec == ConcInit /\ [][ConcNext]_<<vars, conc_vars>>

TypeOK ==
    /\ DOMAIN knocks \subseteq KnockPks
    /\ \A p \in DOMAIN knocks : knocks[p] \in KnockRow
    /\ IsABag(knock_submits)
    /\ next_pk \in 1..(MaxKnocks + 1)

\* ------------------------------------------------------------------------
\* Properties
\* ------------------------------------------------------------------------
\* last is the request just handled, read in the state after it
Exists(k) == k \in DOMAIN knocks
\* u has a KnockSubmit row on k
HasSubmitted(k, u) == \E r \in BagToSet(knock_submits) : r.knock = k /\ r.user = u
TablesUnchanged == knocks' = knocks /\ knock_submits' = knock_submits

\* C1: Assign(k, a, c) on an existing knock with an existing candidate
\* succeeds iff a is k's requester and c already has a submission on k; on
\* success assigned_to becomes c, otherwise the request is rejected with a
\* permission error and nothing is written.
C1_AssignStep ==
    (last'.op = "assing_to" /\ Exists(last'.knock_pk) /\ last'.user_pk \in Users) =>
        LET k == last'.knock_pk
            c == last'.user_pk
            allowed == knocks[k].requester = last'.user /\ HasSubmitted(k, c)
        IN  /\ (last'.response = Redirect) <=> allowed
            /\ allowed => (k \in DOMAIN knocks' /\ knocks'[k].assigned_to = c)
            /\ ~allowed => (last'.response = PermissionDenied /\ TablesUnchanged)

C1_AssignIff == [][C1_AssignStep]_vars

\* a knock that was already rated by its worker is assigned again, to another
\* submitter
C1_Witness ==
    /\ last.op = "assing_to" /\ last.response = Redirect
    /\ Exists(last.knock_pk)
    /\ knocks[last.knock_pk].assigned_to = last.user_pk
    /\ knocks[last.knock_pk].request_stars # None
    /\ \E u \in Users \ {last.user_pk} : HasSubmitted(last.knock_pk, u)

\* C2: a knock is OPEN exactly while nothing is assigned; a successful
\* Assign on an OPEN knock leaves it RESERVED.
C2_StatusInv ==
    \A k \in DOMAIN knocks : (knocks[k].status = OPEN) <=> (knocks[k].assigned_to = None)

C2_AssignStep ==
    (/\ last'.op = "assing_to" /\ last'.response = Redirect
     /\ Exists(last'.knock_pk) /\ knocks[last'.knock_pk].status = OPEN)
        => (/\ last'.knock_pk \in DOMAIN knocks'
            /\ knocks'[last'.knock_pk].status = RESERVED
            /\ knocks'[last'.knock_pk].assigned_to = last'.user_pk)

C3_NoOwnSubmit ==
    /\ \A k \in DOMAIN knocks : ~HasSubmitted(k, knocks[k].requester)
    /\ (last.op = "submit" /\ Exists(last.knock_pk)
        /\ knocks[last.knock_pk].requester = last.user)
            => last.response \in {PermissionDenied, RedirectLogin}

\* a requester who holds the submit permission was refused on the own knock
C3_Witness ==
    /\ last.op = "submit" /\ Exists(last.knock_pk)
    /\ knocks[last.knock_pk].requester = last.user
    /\ last.user \in CanSubmit
    /\ last.response = PermissionDenied

\* C4: there is at most one KnockSubmit row per (knock, user), and a Submit
\* by a user who already has a row on the (existing) knock is rejected with a
\* permission error and writes nothing.
C4_UniqueInv ==
    \A r \in BagToSet(knock_submits) : CopiesIn(r, knock_submits) = 1

C4_SubmitStep ==
    (last'.op = "submit" /\ HasSubmitted(last'.knock_pk, last'.user))
        => (last'.response = PermissionDenied /\ TablesUnchanged)

C4_SubmitOnce == []C4_UniqueInv /\ [][C4_SubmitStep]_vars

\* a second Submit was refused after the knock had been assigned to the user
C4_Witness ==
    /\ last.op = "submit" /\ last.response = PermissionDenied
    /\ HasSubmitted(last.knock_pk, last.user)
    /\ knocks[last.knock_pk].assigned_to = last.user

\* C5: a Rate whose value is missing, is no integer or lies outside 1..5 is
\* rejected with a permission error whoever sends it and whatever the state
\* of the knock, and writes nothing; every stored star value is in 1..5.
BadRating(POST) ==
    \/ "rating" \notin DOMAIN POST
    \/ ~is_int(POST["rating"])
    \/ int(POST["rating"]) \notin 1..5

C5_StarsInv ==
    \A k \in DOMAIN knocks :
        /\ knocks[k].request_stars \in (1..5) \cup {None}
        /\ knocks[k].work_stars \in (1..5) \cup {None}

C5_RateStep ==
    (last'.op = "rating" /\ Exists(last'.knock_pk) /\ BadRating(last'.POST))
        => (last'.response = PermissionDenied /\ TablesUnchanged)

C5_BadRatingRejected == []C5_StarsInv /\ [][C5_RateStep]_vars

\* the assigned worker of an unrated knock sent an out-of-range value
C5_Witness ==
    /\ last.op = "rating" /\ last.response = PermissionDenied
    /\ Exists(last.knock_pk)
    /\ knocks[last.knock_pk].assigned_to = last.user
    /\ knocks[last.knock_pk].request_stars = None
    /\ "rating" \in DOMAIN last.POST
    /\ is_int(last.POST["rating"]) /\ int(last.POST["rating"]) > 5

\* C6: request_stars changes only in a Rate by the user the knock is assigned
\* to at that moment, and only from unset: once set, no request (a further
\* Rate by anyone, an Assign to another worker) changes it.
C6_Step ==
    \A k \in DOMAIN knocks \cap DOMAIN knocks' :
        knocks'[k].request_stars # knocks[k].request_stars =>
            /\ last'.op = "rating" /\ last'.knock_pk = k
            /\ last'.user = knocks[k].assigned_to
            /\ last'.response = Redirect
            /\ knocks[k].request_stars = None
            /\ knocks'[k].request_stars = int(last'.POST["rating"])

C6_RequestStarsOnce == [][C6_Step]_vars

\* a rated knock was assigned to another worker, who then tried to rate it
\* with another value: refused, the first rating stands
C6_Witness ==
    /\ last.op = "rating" /\ last.response = PermissionDenied
    /\ Exists(last.knock_pk)
    /\ knocks[last.knock_pk].assigned_to = last.user
    /\ ~BadRating(last.POST)
    /\ knocks[last.knock_pk].request_stars \notin {None, int(last.POST["rating"])}

\* C7: work_stars changes only in a Rate by the knock's requester, and only
\* from unset: once set, every Rate by the requester fails and no request
\* changes it.
C7_Step ==
    /\ \A k \in DOMAIN knocks \cap DOMAIN knocks' :
        knocks'[k].work_stars # knocks[k].work_stars =>
            /\ last'.op = "rating" /\ last'.knock_pk = k
            /\ last'.user = knocks[k].requester
            /\ last'.response = Redirect
            /\ knocks[k].work_stars = None
            /\ knocks'[k].work_stars = int(last'.POST["rating"])
    /\ (/\ last'.op = "rating" /\ Exists(last'.knock_pk)
        /\ last'.user = knocks[last'.knock_pk].requester
        /\ knocks[last'.knock_pk].work_stars # None)
            => (last'.response = PermissionDenied /\ TablesUnchanged)

C7_WorkStarsOnce == [][C7_Step]_vars

\* the requester tried to rate again with another valid value and was refused
C7_Witness ==
    /\ last.op = "rating" /\ last.response = PermissionDenied
    /\ Exists(last.knock_pk)
    /\ knocks[last.knock_pk].requester = last.user
    /\ ~BadRating(last.POST)
    /\ knocks[last.knock_pk].work_stars \notin {None, int(last.POST["rating"])}

\* C8: a Rate with a value in 1..5 on an existing knock ends as a success or
\* as a permission error, whatever the state of the knock.
C8_RateOutcomes ==
    (last.op = "rating" /\ Exists(last.knock_pk) /\ ~BadRating(last.POST))
        => last.response \in {Redirect, PermissionDenied}

\* C9: Delete(k, actor) on an existing knock is carried out iff actor is k's
\* requester and k's status is OPEN or RESERVED; otherwise it is refused and
\* nothing is deleted.
C9_DeleteStep ==
    (last'.op = "delete" /\ Exists(last'.knock_pk)) =>
        LET k == last'.knock_pk
            permitted == /\ knocks[k].requester = last'.user
                         /\ knocks[k].status \in {OPEN, RESERVED}
        IN  /\ (last'.response = RedirectHome) <=> permitted
            /\ permitted => k \notin DOMAIN knocks'
            /\ ~permitted => (last'.response = PermissionDenied /\ TablesUnchanged)

C9_DeleteIff == [][C9_DeleteStep]_vars

\* the requester was refused the deletion of the own CLOSED knock
C9_Witness ==
    /\ last.op = "delete" /\ last.response = PermissionDenied
    /\ Exists(last.knock_pk)
    /\ knocks[last.knock_pk].requester = last.user
    /\ knocks[last.knock_pk].status = CLOSED

\* C10: on a knock with a worker assigned and no star set, the worker's Rate
\* and the requester's Rate succeed in either order and end in the same
\* tables (request_stars = a, work_stars = b); a successful Rate changes
\* exactly one of the two star fields.
ValidPOSTs == {P \in POSTs : ~BadRating(P)}

C10_BothOrders ==
    \A k \in DOMAIN knocks :
        (/\ knocks[k].assigned_to # None
         /\ knocks[k].request_stars = None /\ knocks[k].work_stars = None) =>
            \A A \in ValidPOSTs, B \in ValidPOSTs :
                LET w == knocks[k].assigned_to
                    r == knocks[k].requester
                    w1 == rating(knocks, knock_submits, k, w, A)
                    w2 == rating(w1.knocks, w1.knock_submits, k, r, B)
                    r1 == rating(knocks, knock_submits, k, r, B)
                    r2 == rating(r1.knocks, r1.knock_submits, k, w, A)
                IN  /\ w1.response = Redirect /\ w2.response = Redirect
                    /\ r1.response = Redirect /\ r2.response = Redirect
                    /\ w2.knocks = r2.knocks
                    /\ w2.knock_submits = r2.knock_submits
                    /\ w2.knocks[k].request_stars = int(A["rating"])
                    /\ w2.knocks[k].work_stars = int(B["rating"])

C10_OneFieldStep ==
    (last'.op = "rating" /\ last'.response = Redirect) =>
        LET k == last'.knock_pk
        IN  /\ k \in DOMAIN knocks \cap DOMAIN knocks'
            /\ (knocks'[k].request_stars # knocks[k].request_stars)
                   # (knocks'[k].work_stars # knocks[k].work_stars)
            /\ knocks'[k].assigned_to = knocks[k].assigned_to
            /\ knocks'[k].requester = knocks[k].requester

C10_RatingsIndependent == []C10_BothOrders /\ [][C10_OneFieldStep]_vars

\* the worker's rating succeeded after the requester's, with another value
C10_Witness ==
    /\ last.op = "rating" /\ last.response = Redirect
    /\ Exists(last.knock_pk)
    /\ knocks[last.knock_pk].assigned_to = last.user
    /\ knocks[last.knock_pk].request_stars = int(last.POST["rating"])
    /\ knocks[last.knock_pk].work_stars \notin {None, int(last.POST["rating"])}

\* C11: a created knock's requester is the user who sent the request,
\* whatever requester the form data names, and no request changes the
\* requester of a knock afterwards.
C11_Step ==
    /\ last'.op = "create" =>
        /\ last'.knock_pk \in DOMAIN knocks' \ DOMAIN knocks
        /\ knocks'[last'.knock_pk].requester = last'.user
    /\ \A k \in DOMAIN knocks \cap DOMAIN knocks' :
        knocks'[k].requester = knocks[k].requester

C11_RequesterFixed == [][C11_Step]_vars

\* a knock was created from a form naming another user, and belongs to the
\* user who sent the request
C11_Witness ==
    /\ last.op = "create" /\ Exists(last.knock_pk)
    /\ last.user_pk \in Users \ {last.user}
    /\ knocks[last.knock_pk].requester = last.user

\* C15: a Submit by a user holding the permission, on an existing knock,
\* succeeds exactly when the user is not the requester and has no submission
\* on the knock, whatever the knock's status, assigned_to and stars; on
\* success the user has a submission, and no Submit, Assign or Rate removes a
\* submission.
Submitters(S, k) == {u \in Users : \E r \in BagToSet(S) : r.knock = k /\ r.user = u}

C15_Step ==
    /\ (last'.op = "submit" /\ Exists(last'.knock_pk) /\ last'.user \in CanSubmit) =>
        LET k == last'.knock_pk
            u == last'.user
            free == knocks[k].requester # u /\ u \notin Submitters(knock_submits, k)
        IN  /\ (last'.response = Redirect) <=> free
            /\ free => Submitters(knock_submits', k) = Submitters(knock_submits, k) \cup {u}
            /\ ~free => last'.response = PermissionDenied
    /\ last'.op \in {"submit", "assing_to", "rating"} =>
        \A k \in KnockPks : Submitters(knock_submits, k) \subseteq Submitters(knock_submits', k)

C15_SubmitGuards == [][C15_Step]_vars

\* a Submit went through on a knock that is assigned to another user, rated
\* by both parties and CLOSED
C15_Witness ==
    /\ last.op = "submit" /\ last.response = Redirect
    /\ Exists(last.knock_pk)
    /\ knocks[last.knock_pk].assigned_to \notin {None, last.user}
    /\ knocks[last.knock_pk].status = CLOSED
    /\ knocks[last.knock_pk].request_stars # None
    /\ knocks[last.knock_pk].work_stars # None

\* C16: assigned_to is absent or a user with a submission on the knock, so it
\* is never the requester, and request_stars is set only on an assigned knock.
C16_AssignedInv ==
    \A k \in DOMAIN knocks :
        /\ knocks[k].assigned_to # None =>
            /\ knocks[k].assigned_to \in Submitters(knock_submits, k)
            /\ knocks[k].assigned_to # knocks[k].requester
        /\ knocks[k].request_stars # None => knocks[k].assigned_to # None

\* both parties have rated an assigned knock: the worker through the worker
\* branch, the requester through the requester branch
C16_Witness ==
    \E k \in DOMAIN knocks :
        /\ knocks[k].assigned_to # None
        /\ knocks[k].request_stars # None /\ knocks[k].work_stars # None
        /\ last.op = "rating" /\ last.knock_pk = k /\ last.response = Redirect

\* C17: a Submit, Assign or Rate that is not carried out (login redirect,
\* 403, 404, unhandled error) leaves both tables as they were.
C17_Step ==
    (last'.op \in {"submit", "assing_to", "rating"} /\ last'.response # Redirect)
        => TablesUnchanged

C17_RejectedUnchanged == [][C17_Step]_vars

\* the requester's Submit on the own knock was refused while others had
\* submitted
C17_Witness ==
    /\ last.op = "submit" /\ last.response = PermissionDenied
    /\ Exists(last.knock_pk)
    /\ knocks[last.knock_pk].requester = last.user
    /\ Submitters(knock_submits, last.knock_pk) # {}

\* ------------------------------------------------------------------------
\* Properties of search (SearchSpec)
\* ------------------------------------------------------------------------
Answered == search_out.response # "none"
Param(name) == IF search_out.GET[name] = <<>> THEN <<>> ELSE search_out.GET[name][1]
Blank(s) == \A i \in 1..Len(s) : s[i] = " "

\* s occurs in t, letter case aside
SameLetter(a, b) ==
    \/ a = b
    \/ \E i \in 1..Len(UpperCase) : {a, b} = {UpperCase[i], LowerCase[i]}
OccursIn(s, t) ==
    \E i \in 0..(Len(t) - Len(s)) : \A j \in 1..Len(s) : SameLetter(s[j], t[i + j])

\* the dates among DateParams that name a day of the calendar
DateOf(s) ==
    IF s = <<"2", "0", "2", "4", "-", "0", "2", "-", "2", "9">> THEN <<2024, 2, 29>>
    ELSE <<>>

TitleSupplied == ~Blank(Param("title"))
DateSupplied == DateOf(Param("date")) # <<>>
CategorySupplied == ~Blank(Param("category"))

\* the knocks that satisfy every supplied filter
Satisfying ==
    {p \in 1..Len(catalog) :
        /\ TitleSupplied => OccursIn(Param("title"), catalog[p].title)
        /\ DateSupplied => catalog[p].request_date = DateOf(Param("date"))
        /\ CategorySupplied => OccursIn(Param("category"), catalog[p].category)}

Range(seq) == {seq[i] : i \in 1..Len(seq)}

\* C12 as claimed: every search is answered, with exactly the knocks that
\* satisfy the conjunction of the supplied filters.
C12_Original ==
    Answered => (search_out.response = Rendered /\ Range(search_out.results) = Satisfying)

\* C12: every search is answered (a malformed or empty date adds no filter);
\* with at least one filter supplied the results are exactly the knocks that
\* satisfy all supplied filters, and with none supplied there are no results.
C12_SearchResults ==
    Answered =>
        /\ search_out.response = Rendered
        /\ Range(search_out.results) =
              IF TitleSupplied \/ DateSupplied \/ CategorySupplied THEN Satisfying ELSE {}
        /\ Range(search_out.object_list) \subseteq Range(search_out.results)

\* a search with a title, a category and a malformed date found some of the
\* knocks and left others out
C12_Witness ==
    /\ Answered
    /\ TitleSupplied /\ CategorySupplied
    /\ Param("date") # <<>> /\ ~DateSupplied
    /\ search_out.results # <<>>
    /\ Len(search_out.results) < Len(catalog)
    /\ \E p \in 1..Len(catalog) :
          /\ OccursIn(Param("title"), catalog[p].title)
          /\ p \notin Range(search_out.results)

\* the page count of the results
LastPage == IF Len(search_out.results) = 0 THEN 1
            ELSE (Len(search_out.results) + PerPage - 1) \div PerPage

\* C13: a page number above the last page yields the last page, one below
\* the first page yields the first page, a missing or non-numeric page
\* yields page 1, and every search is answered.
C13_PageClamped ==
    Answered =>
        /\ search_out.response = Rendered
        /\ (Param("page") = <<>> \/ ~is_int(Param("page"))) => search_out.number = 1
        /\ (Param("page") # <<>> /\ is_int(Param("page"))) =>
              /\ int(Param("page")) > LastPage => search_out.number = LastPage
              /\ int(Param("page")) < 1 => search_out.number = 1
              /\ int(Param("page")) \in 1..LastPage => search_out.number = int(Param("page"))

\* ------------------------------------------------------------------------
\* Properties of rating requests running side by side (ConcSpec)
\* ------------------------------------------------------------------------
Done(p) == requests[p].pc = "done"
Saved(p) == \E i \in 1..Len(writes) : writes[i] = p
SaveIndex(p) == CHOOSE i \in 1..Len(writes) : writes[i] = p
Stars(p) == int(requests[p].POST["rating"])
AsWorker(p) == requests[p].user = knocks[requests[p].knock_pk].assigned_to
AsRequester(p) == requests[p].user = knocks[requests[p].knock_pk].requester
\* the star field a request by this user writes, as stored now
StoredFor(p) ==
    IF AsWorker(p) THEN knocks[requests[p].knock_pk].request_stars
    ELSE knocks[requests[p].knock_pk].work_stars

\* C14: two Rate requests by the same user on the same knock that both loaded
\* the knock and passed the already-set test before either saved both
\* succeed, both write the star field, and the stored value is the one of
\* the later save (until a further save).
C14_BothPending(p, q) ==
    /\ p # q
    /\ requests[p].pc = "saving" /\ requests[q].pc = "saving"
    /\ requests[p].user = requests[q].user
    /\ requests[p].knock_pk = requests[q].knock_pk

C14_SaveStep ==
    \A p \in RequestIds :
        (requests[p].pc = "saving" /\ requests'[p].pc # "saving") =>
            /\ requests'[p].pc = "done" /\ requests'[p].response = Redirect
            /\ writes' = Append(writes, p)
            /\ \A q \in RequestIds : C14_BothPending(p, q) =>
                  /\ requests'[q].pc = "saving"
                  /\ (IF requests[p].user = knocks[requests[p].knock_pk].assigned_to
                      THEN knocks'[requests[p].knock_pk].request_stars
                      ELSE knocks'[requests[p].knock_pk].work_stars) = Stars(p)

C14_Final ==
    \A p \in RequestIds, q \in RequestIds :
        (/\ Saved(p) /\ Saved(q) /\ SaveIndex(p) < SaveIndex(q)
         /\ requests[p].user = requests[q].user
         /\ requests[p].knock_pk = requests[q].knock_pk
         /\ SaveIndex(q) = Len(writes))
            => (/\ requests[p].response = Redirect /\ requests[q].response = Redirect
                /\ StoredFor(q) = Stars(q))

C14_RatingRace == []C14_Final /\ [][C14_SaveStep]_<<vars, conc_vars>>

\* two requests by the same user with different values both succeeded; the
\* value of the later save is stored, the earlier one is gone
C14_Witness ==
    \E p \in RequestIds, q \in RequestIds :
        /\ Saved(p) /\ Saved(q) /\ SaveIndex(p) < SaveIndex(q)
        /\ requests[p].user = requests[q].user
        /\ requests[p].response = Redirect /\ requests[q].response = Redirect
        /\ Stars(p) # Stars(q)
        /\ StoredFor(q) = Stars(q)

\* C18: when the worker's Rate and the requester's Rate on the same knock
\* both succeed, the stored knock has request_stars and work_stars set to
\* the values they sent.
C18_NoLostUpdate ==
    \A p \in RequestIds, q \in RequestIds :
        (/\ Done(p) /\ Done(q)
         /\ requests[p].response = Redirect /\ requests[q].response = Redirect
         /\ requests[p].knock_pk = requests[q].knock_pk
         /\ AsWorker(p) /\ AsRequester(q))
            => (/\ knocks[requests[p].knock_pk].request_stars = Stars(p)
                /\ knocks[requests[p].knock_pk].work_stars = Stars(q))

====
